---- MODULE Spec2Model ----
(***************************************************************************)
(* Model of optparse2 (src/__init__.py): the extension layer over the      *)
(* standard optparse engine.  Python strings are sequences of one-character*)
(* strings, objects are numbered (options by their position in `options`,  *)
(* groups by their position in `groups`), dictionaries are functions.      *)
(***************************************************************************)
EXTENDS Integers, Sequences, FiniteSets, TLC

VARIABLES
    options,        \* every Option object ever created by a successful registration
    groups,         \* every OptionGroup object: [title, option_list, cls]
    option_list,    \* parser.option_list   (sequence of option ids)
    option_groups,  \* parser.option_groups (sequence of group ids)
    _short_opt,     \* parser._short_opt, shared with every group
    _long_opt,      \* parser._long_opt, shared with every group
    version,        \* parser.version
    constructed,    \* TRUE once OptionParser.__init__ has returned normally
    raised,         \* exception raised by the last call, or "None"
    returned        \* value returned by the last call

vars == <<options, groups, option_list, option_groups, _short_opt, _long_opt,
          version, constructed, raised, returned>>

-----------------------------------------------------------------------------
(* Bounds of the model *)

\* options registered after construction, option strings per registration
\* and groups of a parser, in Spec
MaxOptions == 1
MaxArgs == 2
MaxGroups == 1
\* options registered after construction in SpecNames, SpecSort and SpecHelp,
\* and groups added in SpecSort
MaxNamedOptions == 1
MaxSortOptions == 2
MaxSortGroups == 1
MaxHelpOptions == 1

-----------------------------------------------------------------------------
(* Python values *)

\* None, as an object reference (option ids start at 1)
PyNone == 0

\* False, as returned by search_option
PyFalse == 0 - 1

\* None or '' as a string value: every test the code makes on dest, help and
\* version is a truthiness test, which both fail
NoStr == <<>>

\* characters in use, in ASCII order
Alphabet == <<" ", "!", "%", "'", "(", ")", ",", "-", ".", "0", "1", ":", "?",
              "A", "D", "E", "F", "G", "L", "N", "O", "T", "U", "Z", "_",
              "a", "b", "c", "d", "e", "f", "h", "i", "l", "n", "o", "p",
              "r", "s", "t", "u", "v", "x", "y">>

\* ord(c), as far as the order of the characters goes
Ordinals ==
    [c \in {Alphabet[i] : i \in 1..Len(Alphabet)} |->
        CHOOSE i \in 1..Len(Alphabet) : Alphabet[i] = c]

Ord(c) == Ordinals[c]

\* a < b on str
RECURSIVE StrLt(_, _)
StrLt(a, b) ==
    IF b = <<>> THEN FALSE
    ELSE IF a = <<>> THEN TRUE
    ELSE IF a[1] = b[1] THEN StrLt(Tail(a), Tail(b))
    ELSE Ord(a[1]) < Ord(b[1])

\* s[k:] for k >= 0
From(s, k) == SubSeq(s, k + 1, Len(s))

\* pat in s
Contains(s, pat) ==
    \E i \in 1..(Len(s) + 1) :
        /\ i + Len(pat) - 1 <= Len(s)
        /\ SubSeq(s, i, i + Len(pat) - 1) = pat

\* s.replace('-', '_')
ReplaceDash(s) == [i \in 1..Len(s) |-> IF s[i] = "-" THEN "_" ELSE s[i]]

\* list.index(x): position of the first occurrence, 0 standing for ValueError
Index(list, x) ==
    IF \E i \in 1..Len(list) : list[i] = x
    THEN CHOOSE i \in 1..Len(list) :
            list[i] = x /\ \A j \in 1..(i - 1) : list[j] # x
    ELSE 0

\* list.pop(i)
Pop(list, i) == SubSeq(list, 1, i - 1) \o SubSeq(list, i + 1, Len(list))

\* list.remove(x): drops the first occurrence
Remove(list, x) == Pop(list, Index(list, x))

\* dict.get(key), None when the key is missing
Get(dict, key) == IF key \in DOMAIN dict THEN dict[key] ELSE PyNone

\* del dict[key]
Del(dict, key) == [k \in DOMAIN dict \ {key} |-> dict[k]]

\* dict[key] = value
Put(dict, key, value) ==
    [k \in DOMAIN dict \cup {key} |-> IF k = key THEN value ELSE dict[k]]

RECURSIVE PutAll(_, _, _)
PutAll(dict, keys, value) ==
    IF keys = <<>> THEN dict
    ELSE PutAll(Put(dict, keys[1], value), Tail(keys), value)

-----------------------------------------------------------------------------
(* The optparse engine, as far as the extension relies on it *)

STORE_ACTIONS == {"store", "store_const", "store_true", "store_false",
                  "append", "append_const", "count"}

NO_DEFAULT == [type |-> "tuple", value |-> <<"N", "O">>]

IsShortString(opt) == Len(opt) = 2 /\ opt[1] = "-" /\ opt[2] # "-"

IsLongString(opt) == Len(opt) > 2 /\ opt[1] = "-" /\ opt[2] = "-" /\ opt[3] # "-"

\* optparse.Option(*args, **kwargs): _set_opt_strings and _check_dest
Option(args, kwargs) ==
    LET shorts == SelectSeq(args, IsShortString)
        longs == SelectSeq(args, IsLongString)
        dest == IF kwargs.dest = NoStr /\ kwargs.action \in STORE_ACTIONS
                THEN IF longs # <<>> THEN ReplaceDash(From(longs[1], 2))
                     ELSE <<shorts[1][2]>>
                ELSE kwargs.dest
    IN [_short_opts |-> shorts, _long_opts |-> longs, dest |-> dest,
        action |-> kwargs.action, help |-> kwargs.help,
        default |-> kwargs.default]

\* keyword arguments of a registration, with the engine's defaults
Kwargs(dest, action, help, default) ==
    [dest |-> dest, action |-> action, help |-> help, default |-> default]

\* optparse.OptionContainer._check_conflict with conflict_handler "error":
\* TRUE when OptionConflictError is raised
_check_conflict(self, option) ==
    \/ \E i \in 1..Len(option._short_opts) :
            option._short_opts[i] \in DOMAIN self._short_opt
    \/ \E i \in 1..Len(option._long_opts) :
            option._long_opts[i] \in DOMAIN self._long_opt

\* the option list of a container: 0 is the parser, g > 0 the group g
ListOf(self, c) == IF c = 0 THEN self.option_list ELSE self.groups[c].option_list

SetListOf(self, c, list) ==
    IF c = 0 THEN [self EXCEPT !.option_list = list]
    ELSE [self EXCEPT !.groups[c].option_list = list]

\* optparse.OptionContainer.add_option on container c
optparse_add_option(self, c, args, kwargs) ==
    LET option == Option(args, kwargs)
        id == Len(self.options) + 1
        added == SetListOf([self EXCEPT !.options = Append(@, option)],
                           c, Append(ListOf(self, c), id))
    IN IF _check_conflict(self, option)
       THEN [self |-> self, raised |-> "OptionConflictError"]
       ELSE [self |-> [added EXCEPT
                        !._short_opt = PutAll(@, option._short_opts, id),
                        !._long_opt = PutAll(@, option._long_opts, id)],
             raised |-> "None"]

\* optparse.OptionGroup(parser, title), of class cls
NewGroup(self, title, cls) ==
    [self EXCEPT !.groups = Append(@, [title |-> title, option_list |-> <<>>,
                                       cls |-> cls])]

\* optparse.OptionParser.add_option_group(group)
optparse_add_option_group(self, g) ==
    [self EXCEPT !.option_groups = Append(@, g)]

-----------------------------------------------------------------------------
(* class OptionContainer *)

\* cycle_optionstring without the test that another option string remains
cycle_optionstring_unguarded(self, optionstring) ==
    IF optionstring \in DOMAIN self._short_opt
    THEN [self EXCEPT
            !.options[self._short_opt[optionstring]]._short_opts =
                Remove(@, optionstring),
            !._short_opt = Del(@, optionstring)]
    ELSE IF optionstring \in DOMAIN self._long_opt
    THEN [self EXCEPT
            !.options[self._long_opt[optionstring]]._long_opts =
                Remove(@, optionstring),
            !._long_opt = Del(@, optionstring)]
    ELSE self

\* one turn of the loop over the option strings of the new option
cycle_optionstring(self, optionstring) ==
    IF optionstring \in DOMAIN self._short_opt
    THEN LET option == self._short_opt[optionstring]
         IN IF Len(self.options[option]._short_opts)
                 + Len(self.options[option]._long_opts) > 1
            THEN [self EXCEPT
                    !.options[option]._short_opts = Remove(@, optionstring),
                    !._short_opt = Del(@, optionstring)]
            ELSE self
    ELSE IF optionstring \in DOMAIN self._long_opt
    THEN LET option == self._long_opt[optionstring]
         IN IF Len(self.options[option]._short_opts)
                 + Len(self.options[option]._long_opts) > 1
            THEN [self EXCEPT
                    !.options[option]._long_opts = Remove(@, optionstring),
                    !._long_opt = Del(@, optionstring)]
            ELSE self
    ELSE self

RECURSIVE cycle_optionstrings(_, _)
cycle_optionstrings(self, args) ==
    IF args = <<>> THEN self
    ELSE cycle_optionstrings(cycle_optionstring(self, args[1]), Tail(args))

\* OptionContainer.add_option, the method of the parser and of OptionGroup
OptionContainer_add_option(self, c, args, kwargs) ==
    optparse_add_option(cycle_optionstrings(self, args), c, args, kwargs)

\* container.add_option as dispatched on the class of the container
add_option_call(self, c, args, kwargs) ==
    IF c # 0 /\ self.groups[c].cls = "optparse.OptionGroup"
    THEN optparse_add_option(self, c, args, kwargs)
    ELSE OptionContainer_add_option(self, c, args, kwargs)

RECURSIVE ScanDest(_, _, _)
ScanDest(self, list, name) ==
    IF list = <<>> THEN PyNone
    ELSE IF self.options[list[1]].dest # NoStr
            /\ self.options[list[1]].dest = name
         THEN list[1]
         ELSE ScanDest(self, Tail(list), name)

get_option_by_name(self, name) ==
    LET byDest == ScanDest(self, self.option_list, name)
        byLong == Get(self._long_opt, <<"-", "-">> \o name)
    IN IF byDest # PyNone THEN byDest
       ELSE IF byLong # PyNone THEN byLong
       ELSE Get(self._short_opt, <<"-">> \o name)

-----------------------------------------------------------------------------
(* class OptionParser *)

\* move_option putting the option at the head of the destination list
move_option_call_front(self, name, destination, source) ==
    LET src == IF source = 0 - 1 THEN 0 ELSE source
        index == Index(ListOf(self, src), get_option_by_name(self, name))
        moved == ListOf(self, src)[index]
        popped == SetListOf(self, src, Pop(ListOf(self, src), index))
    IN IF index = 0
       THEN [self |-> self, raised |-> "KeyError"]
       ELSE [self |-> SetListOf(popped, destination,
                                <<moved>> \o ListOf(popped, destination)),
             raised |-> "None"]

\* move_option(name, destination, source); source = -1 stands for None
move_option_call(self, name, destination, source) ==
    LET src == IF source = 0 - 1 THEN 0 ELSE source
        index == Index(ListOf(self, src), get_option_by_name(self, name))
        moved == ListOf(self, src)[index]
        popped == SetListOf(self, src, Pop(ListOf(self, src), index))
    IN IF index = 0
       THEN [self |-> self, raised |-> "KeyError"]
       ELSE [self |-> SetListOf(popped, destination,
                                Append(ListOf(popped, destination), moved)),
             raised |-> "None"]

\* 'show this help message and exit'
HELP == <<"h", "e", "l", "p">>

VERSION == <<"v", "e", "r", "s", "i", "o", "n">>

HelpHelp == <<"s", "h", "o", "w", " ", "t", "h", "i", "s", " ", "h", "e", "l", "p",
              " ", "m", "e", "s", "s", "a", "g", "e", " ", "a", "n", "d", " ",
              "e", "x", "i", "t">>

\* "show program's version number and exit"
VersionHelp == <<"s", "h", "o", "w", " ", "p", "r", "o", "g", "r", "a", "m", "'",
                 "s", " ", "v", "e", "r", "s", "i", "o", "n", " ", "n", "u", "m",
                 "b", "e", "r", " ", "a", "n", "d", " ", "e", "x", "i", "t">>

_add_help_option(self) ==
    OptionContainer_add_option(self, 0,
        << <<"-", "?">>, <<"-", "-">> \o HELP >>,
        Kwargs(NoStr, "help", HelpHelp, NO_DEFAULT))

\* optparse.OptionParser._add_version_option
_add_version_option(self) ==
    OptionContainer_add_option(self, 0,
        << <<"-", "-">> \o VERSION >>,
        Kwargs(NoStr, "version", VersionHelp, NO_DEFAULT))

\* optparse.OptionParser.__init__: sets version, then _populate_option_list
optparse_OptionParser__init__(self, kwargs) ==
    LET s0 == [self EXCEPT !.version = kwargs.version]
        s1 == IF s0.version # NoStr THEN _add_version_option(s0).self ELSE s0
    IN _add_help_option(s1).self

GeneralTitle == <<"G", "e", "n", "e", "r", "a", "l", " ", "o", "p", "t", "i",
                  "o", "n", "s">>

EmptySelf ==
    [options |-> <<>>, groups |-> <<>>, option_list |-> <<>>,
     option_groups |-> <<>>, _short_opt |-> <<>>, _long_opt |-> <<>>,
     version |-> NoStr]

\* OptionParser.__init__(**kwargs); a keyword is present when its field of
\* kwargs is a one-element set and absent when it is empty
__init__(kwargs) ==
    LET ver == IF kwargs.version = {} THEN <<" ">>
               ELSE CHOOSE v \in kwargs.version : TRUE
        general == IF kwargs.general = {} THEN TRUE
                   ELSE CHOOSE g \in kwargs.general : TRUE
        s1 == optparse_OptionParser__init__(EmptySelf, [version |-> ver])
        s2 == NewGroup(s1, GeneralTitle, "optparse.OptionGroup")
        og == Len(s2.groups)
        m1 == move_option_call(s2, HELP, og, 0 - 1)
        m2 == move_option_call(m1.self, VERSION, og, 0 - 1)
    IN IF ~general THEN [self |-> s1, raised |-> "None"]
       ELSE IF m1.raised # "None" THEN m1
       ELSE IF m2.raised # "None" THEN m2
       ELSE [self |-> optparse_add_option_group(m2.self, og), raised |-> "None"]

\* OptionParser.walk: the options of the parser, then of each group in turn
RECURSIVE WalkGroups(_, _)
WalkGroups(self, gs) ==
    IF gs = <<>> THEN <<>>
    ELSE self.groups[gs[1]].option_list \o WalkGroups(self, Tail(gs))

walk(self) == self.option_list \o WalkGroups(self, self.option_groups)

RECURSIVE SearchIn(_, _, _)
SearchIn(self, list, name) ==
    IF list = <<>> THEN PyFalse
    ELSE LET option == self.options[list[1]]
         IN IF \/ option.dest # NoStr /\ option.dest = name
               \/ \E i \in 1..Len(option._long_opts) :
                      option._long_opts[i] = <<"-", "-">> \o name
               \/ \E i \in 1..Len(option._short_opts) :
                      option._short_opts[i] = <<"-">> \o name
            THEN list[1]
            ELSE SearchIn(self, Tail(list), name)

\* search_option with the priorities of get_option_by_name: dest first, then
\* the long and the short option string
RECURSIVE SearchBy(_, _, _, _)
SearchBy(self, list, name, by) ==
    IF list = <<>> THEN PyFalse
    ELSE LET option == self.options[list[1]]
         IN IF \/ by = "dest" /\ option.dest # NoStr /\ option.dest = name
               \/ by = "long" /\ \E i \in 1..Len(option._long_opts) :
                      option._long_opts[i] = <<"-", "-">> \o name
               \/ by = "short" /\ \E i \in 1..Len(option._short_opts) :
                      option._short_opts[i] = <<"-">> \o name
            THEN list[1]
            ELSE SearchBy(self, Tail(list), name, by)

search_option_call_by_priority(self, name) ==
    IF SearchBy(self, walk(self), name, "dest") # PyFalse
    THEN SearchBy(self, walk(self), name, "dest")
    ELSE IF SearchBy(self, walk(self), name, "long") # PyFalse
    THEN SearchBy(self, walk(self), name, "long")
    ELSE SearchBy(self, walk(self), name, "short")

search_option_call(self, name) == SearchIn(self, walk(self), name)

\* the name an option is sorted by
SortName(self, a) ==
    IF Len(self.options[a]._short_opts) > 0
    THEN From(self.options[a]._short_opts[1], 1)
    ELSE From(self.options[a]._long_opts[1], 2)

\* cmp_opts with the two orders exchanged
cmp_opts_reversed(self, a, b) ==
    LET aname == SortName(self, a)
        bname == SortName(self, b)
    IN IF aname = bname THEN 0
       ELSE IF StrLt(aname, bname) THEN 1
       ELSE 0 - 1

cmp_opts(self, a, b) ==
    LET aname == SortName(self, a)
        bname == SortName(self, b)
    IN IF aname = bname THEN 0
       ELSE IF StrLt(aname, bname) THEN 0 - 1
       ELSE 1

\* the lambda that print_help sorts the groups with
cmp_groups(self, a, b) ==
    IF StrLt(self.groups[a].title, self.groups[b].title) THEN 0 - 1 ELSE 1

\* list.sort(cmp=...) asks only whether cmp(x, y) < 0
ISLT(self, kind, x, y) ==
    IF kind = "options" THEN cmp_opts(self, x, y) < 0
    ELSE cmp_groups(self, x, y) < 0

\* list.sort on a short list is a binary insertion sort: the place of the
\* pivot list[start] among list[1..start-1], found by bisection
RECURSIVE Bisect(_, _, _, _, _, _)
Bisect(self, kind, list, pivot, l, r) ==
    IF l >= r THEN l
    ELSE LET p == l + ((r - l) \div 2)
         IN IF ISLT(self, kind, pivot, list[p])
            THEN Bisect(self, kind, list, pivot, l, p)
            ELSE Bisect(self, kind, list, pivot, p + 1, r)

RECURSIVE BinarySort(_, _, _, _)
BinarySort(self, kind, list, start) ==
    IF start > Len(list) THEN list
    ELSE LET pivot == list[start]
             l == Bisect(self, kind, list, pivot, 1, start)
         IN BinarySort(self, kind,
                SubSeq(list, 1, l - 1) \o <<pivot>> \o SubSeq(list, l, start - 1)
                    \o SubSeq(list, start + 1, Len(list)),
                start + 1)

Sort(self, kind, list) == BinarySort(self, kind, list, 2)

\* the loop of print_help over the groups, in their sorted order
RECURSIVE SortGroupLists(_, _)
SortGroupLists(self, gs) ==
    IF gs = <<>> THEN self
    ELSE SortGroupLists(
            [self EXCEPT !.groups[gs[1]].option_list = Sort(self, "options", @)],
            Tail(gs))

\* the sorting done by print_help, before the help is formatted and paged
print_help_sort(self) ==
    LET s1 == [self EXCEPT !.option_list = Sort(self, "options", @)]
        s2 == [s1 EXCEPT !.option_groups = Sort(s1, "groups", @)]
    IN SortGroupLists(s2, s2.option_groups)

\* str(value) of a default value
Str(value) ==
    CASE value.type = "str" -> value.value
      [] value.type = "NoneType" -> <<"N", "o", "n", "e">>
      [] value.type = "tuple" ->
            <<"(", "'", "N", "O", "'", ",", " ", "'", "D", "E", "F", "A", "U",
              "L", "T", "'", ")">>

PercentDefault == <<"%", "d", "e", "f", "a", "u", "l", "t">>

DefaultNote == <<"D", "e", "f", "a", "u", "l", "t", ":", " ">> \o PercentDefault

\* add_default_value without the test for '%default'
add_default_value_unguarded(o) ==
    IF /\ o.help # NoStr
       /\ o.action = "store"
       /\ Str(o.default) # <<>>
    THEN LET h1 == IF o.help[Len(o.help)] \notin {".", "!"}
                   THEN o.help \o <<".">> ELSE o.help
             h2 == IF h1[Len(h1)] # " " THEN h1 \o <<" ">> ELSE h1
         IN [o EXCEPT !.help = h2 \o DefaultNote]
    ELSE o

\* the body of the loop of _add_default_values, for one option
add_default_value(o) ==
    IF /\ o.help # NoStr
       /\ ~Contains(o.help, PercentDefault)
       /\ o.action = "store"
       /\ Str(o.default) # <<>>
    THEN LET h1 == IF o.help[Len(o.help)] \notin {".", "!"}
                   THEN o.help \o <<".">> ELSE o.help
             h2 == IF h1[Len(h1)] # " " THEN h1 \o <<" ">> ELSE h1
         IN [o EXCEPT !.help = h2 \o DefaultNote]
    ELSE o

RECURSIVE AddDefaultsList(_, _)
AddDefaultsList(self, list) ==
    IF list = <<>> THEN self
    ELSE AddDefaultsList(
            [self EXCEPT !.options[list[1]] = add_default_value(@)], Tail(list))

_add_default_values(self, op) == AddDefaultsList(self, ListOf(self, op))

RECURSIVE AddDefaultsGroups(_, _)
AddDefaultsGroups(self, gs) ==
    IF gs = <<>> THEN self
    ELSE AddDefaultsGroups(_add_default_values(self, gs[1]), Tail(gs))

add_all_default_values(self) ==
    AddDefaultsGroups(_add_default_values(self, 0), self.option_groups)

-----------------------------------------------------------------------------
(* State *)

Self ==
    [options |-> options, groups |-> groups, option_list |-> option_list,
     option_groups |-> option_groups, _short_opt |-> _short_opt,
     _long_opt |-> _long_opt, version |-> version]

SetSelf(s) ==
    /\ options' = s.options
    /\ groups' = s.groups
    /\ option_list' = s.option_list
    /\ option_groups' = s.option_groups
    /\ _short_opt' = s._short_opt
    /\ _long_opt' = s._long_opt
    /\ version' = s.version

Init ==
    /\ options = <<>>
    /\ groups = <<>>
    /\ option_list = <<>>
    /\ option_groups = <<>>
    /\ _short_opt = <<>>
    /\ _long_opt = <<>>
    /\ version = NoStr
    /\ constructed = FALSE
    /\ raised = "None"
    /\ returned = PyNone

\* the containers a caller can name: the parser and its groups
Containers == {0} \cup {option_groups[i] : i \in 1..Len(option_groups)}

OptionParser__init__(kwargs) ==
    /\ ~constructed
    /\ raised = "None"
    /\ \E r \in {__init__(kwargs)} :
          /\ SetSelf(r.self)
          /\ raised' = r.raised
          /\ constructed' = (r.raised = "None")
    /\ returned' = PyNone

add_option(c, args, kwargs) ==
    /\ constructed
    /\ c \in Containers
    /\ \E r \in {add_option_call(Self, c, args, kwargs)} :
          /\ SetSelf(r.self)
          /\ raised' = r.raised
    /\ returned' = PyNone
    /\ UNCHANGED constructed

move_option(name, destination, source) ==
    /\ constructed
    /\ destination \in Containers
    /\ source \in Containers \cup {0 - 1}
    /\ \E r \in {move_option_call(Self, name, destination, source)} :
          /\ SetSelf(r.self)
          /\ raised' = r.raised
    /\ returned' = PyNone
    /\ UNCHANGED constructed

\* parser.add_option_group(OptionGroup(parser, title))
add_option_group(title) ==
    /\ constructed
    /\ \E s1 \in {NewGroup(Self, title, "OptionGroup")} :
          SetSelf(optparse_add_option_group(s1, Len(s1.groups)))
    /\ raised' = "None"
    /\ returned' = PyNone
    /\ UNCHANGED constructed

search_option(name) ==
    /\ constructed
    /\ returned' = search_option_call(Self, name)
    /\ raised' = "None"
    /\ UNCHANGED <<options, groups, option_list, option_groups, _short_opt,
                   _long_opt, version, constructed>>

\* print_help, up to the call of the pager
print_help ==
    /\ constructed
    /\ \E s \in {print_help_sort(Self)} : SetSelf(s)
    /\ raised' = "None"
    /\ returned' = PyNone
    /\ UNCHANGED constructed

\* parse_args, up to the call of the engine's parse_args
parse_args ==
    /\ constructed
    /\ \E s \in {add_all_default_values(Self)} : SetSelf(s)
    /\ raised' = "None"
    /\ returned' = PyNone
    /\ UNCHANGED constructed

-----------------------------------------------------------------------------------------------------------------------------------------------------
(* Inputs *)

\* keyword arguments of the constructor: version absent, empty or given,
\* general absent, True or False
InitKwargs ==
    [version : {{}, {NoStr}, {<<" ">>}}, general : {{}, {TRUE}, {FALSE}}]

\* option strings of the registrations
OptStrings == {<<"-", "?">>, <<"-", "-">> \o HELP}

ArgLists == UNION {[1..n -> OptStrings] : n \in 1..MaxArgs}

Names == {<<"?">>, HELP}

Plain(dest) == Kwargs(dest, "store", NoStr, NO_DEFAULT)

\* the options registered since construction, which leaves the help option
\* and, when there is a version, the version option
UserOptions == Len(options) - (IF version = NoStr THEN 1 ELSE 2)

\* a registration is tried while fewer than max options were registered, and
\* a failing one at any time
Below(max, c, args, kwargs) ==
    \/ UserOptions < max
    \/ add_option_call(Self, c, args, kwargs).raised # "None"

Construct == \E kwargs \in InitKwargs : OptionParser__init__(kwargs)

Move ==
    \E name \in Names, destination \in Containers,
       source \in Containers \cup {0 - 1} :
        move_option(name, destination, source)

Register ==
    \E c \in Containers, args \in ArgLists :
        /\ Below(MaxOptions, c, args, Plain(NoStr))
        /\ add_option(c, args, Plain(NoStr))

AddGroup ==
    /\ Len(groups) < MaxGroups
    /\ add_option_group(<<"A">>)

Next == Construct \/ Register \/ AddGroup \/ Move

Spec == Init /\ [][Next]_vars

\* registrations with an explicit dest, moves and searches by name
RegisterDest ==
    \E c \in Containers, args \in ArgLists, dest \in {NoStr, HELP} :
        /\ UserOptions < MaxNamedOptions
        /\ add_option(c, args, Plain(dest))

Search == \E name \in Names : search_option(name)

NextNames == Construct \/ RegisterDest \/ Move \/ Search

SpecNames == Init /\ [][NextNames]_vars

\* construction without a version argument
ConstructGeneral ==
    \E general \in {{}, {TRUE}, {FALSE}} :
        OptionParser__init__([version |-> {}, general |-> general])

SortStrings == {<<"-", "a">>, <<"-", "b">>, <<"-", "-", "b">>}

SortTitles == {<<"A">>, GeneralTitle}

\* registrations of one option string each, groups, and help pages
RegisterOne ==
    \E c \in Containers, s \in SortStrings :
        /\ UserOptions < MaxSortOptions
        /\ add_option(c, <<s>>, Plain(NoStr))

AddTitledGroup ==
    \E title \in SortTitles :
        /\ Len(groups) < MaxSortGroups + 1
        /\ add_option_group(title)

NextSort == ConstructGeneral \/ RegisterOne \/ AddTitledGroup \/ print_help

SpecSort == Init /\ [][NextSort]_vars

HelpStrings == {<<"-", "x">>, <<"-", "y">>}

HelpTexts == {NoStr, <<"a">>, <<"a", "!">>, PercentDefault,
              <<"D", "e", "f", "a", "u", "l", "t", ":", " ">>}

Defaults == {NO_DEFAULT, [type |-> "NoneType", value |-> <<>>],
             [type |-> "str", value |-> <<>>]}

\* registrations with a help text and a default, and parses
RegisterHelp ==
    \E c \in Containers, s \in HelpStrings, action \in {"store", "store_true"},
       help \in HelpTexts, default \in Defaults :
        /\ UserOptions < MaxHelpOptions
        /\ add_option(c, <<s>>, Kwargs(NoStr, action, help, default))

NextHelp == ConstructGeneral \/ RegisterHelp \/ parse_args

SpecHelp == Init /\ [][NextHelp]_vars

-----------------------------------------------------------------------------
(* Vocabulary of the properties *)

\* the parser in the next state
SelfNext ==
    [options |-> options', groups |-> groups', option_list |-> option_list',
     option_groups |-> option_groups', _short_opt |-> _short_opt',
     _long_opt |-> _long_opt', version |-> version']

InSeq(x, seq) == \E i \in 1..Len(seq) : seq[i] = x

Occurrences(x, seq) == Cardinality({i \in 1..Len(seq) : seq[i] = x})

IsPermutation(a, b) ==
    /\ Len(a) = Len(b)
    /\ \A i \in 1..Len(a) : Occurrences(a[i], a) = Occurrences(a[i], b)

\* the sequence without x
Without(seq, x) == LET Other(y) == y # x IN SelectSeq(seq, Other)

NumStrings(o) == Len(o._short_opts) + Len(o._long_opts)

Lists(o, s) == InSeq(s, o._short_opts) \/ InSeq(s, o._long_opts)

\* the option that claims s in the lookup indexes, or None
Claimant(self, s) ==
    IF s \in DOMAIN self._short_opt THEN self._short_opt[s]
    ELSE Get(self._long_opt, s)

\* the containers whose add_option is OptionContainer.add_option
Overrides(c) == c = 0 \/ groups[c].cls = "OptionGroup"

RegistryUnchanged ==
    UNCHANGED <<options, groups, option_list, option_groups, _short_opt,
                _long_opt>>

Matches(o, name) ==
    \/ o.dest # NoStr /\ o.dest = name
    \/ InSeq(<<"-", "-">> \o name, o._long_opts)
    \/ InSeq(<<"-">> \o name, o._short_opts)

EndsWith(s, suffix) ==
    /\ Len(s) >= Len(suffix)
    /\ SubSeq(s, Len(s) - Len(suffix) + 1, Len(s)) = suffix

Count(s, pat) ==
    Cardinality({i \in 1..Len(s) :
                    /\ i + Len(pat) - 1 <= Len(s)
                    /\ SubSeq(s, i, i + Len(pat) - 1) = pat})

\* the sort key of the help page
Key(o) ==
    IF o._short_opts # <<>> THEN Tail(o._short_opts[1])
    ELSE Tail(Tail(o._long_opts[1]))

-----------------------------------------------------------------------------
(* Properties *)

\* C1: for every option string s of a registration that an existing option E
\* claims: if E has more than one option string, then after the call E no
\* longer lists s and the index maps s to the new option; if s is the only
\* option string of E, then E keeps s, the index still maps s to E, the call
\* raises OptionConflictError and no option is appended.
C1_ConflictRule ==
    [][\A c \in Containers, args \in ArgLists :
        Overrides(c) /\ add_option(c, args, Plain(NoStr)) =>
            \A i \in 1..Len(args) :
                LET s == args[i]
                    E == Claimant(Self, s)
                IN E # PyNone =>
                    IF NumStrings(options[E]) > 1
                    THEN /\ ~Lists(options'[E], s)
                         /\ Claimant(SelfNext, s) = Len(options) + 1
                    ELSE /\ Lists(options'[E], s)
                         /\ Claimant(SelfNext, s) = E
                         /\ raised' = "OptionConflictError"
                         /\ Len(options') = Len(options)
                         /\ UNCHANGED <<option_list, groups>>]_vars

\* C2: every option that was ever registered has at least one option string.
C2_KeepsOneString ==
    \A i \in 1..Len(options) : NumStrings(options[i]) >= 1

\* a registration has just failed, and the help option has lost "-?" or
\* "--help" to some registration
C2_Witness ==
    /\ constructed
    /\ raised = "OptionConflictError"
    /\ \E i \in 1..Len(options) :
        options[i].action = "help" /\ NumStrings(options[i]) = 1

\* the options that add_all_default_values appends to
Eligible(o) ==
    /\ o.action = "store"
    /\ o.help # NoStr
    /\ ~Contains(o.help, PercentDefault)
    /\ Str(o.default) # <<>>

\* C3: parse_args leaves the help of every eligible option ending with
\* 'Default: %default' and holding it exactly once, leaves every other help
\* as it was, and a second run changes nothing more.
C3_DefaultAugmentation ==
    [][parse_args =>
        /\ \A i \in 1..Len(options) :
            /\ InSeq(i, walk(Self))
            /\ IF Eligible(options[i])
               THEN /\ EndsWith(options'[i].help, DefaultNote)
                    /\ Count(options'[i].help, DefaultNote) = 1
               ELSE options'[i].help = options[i].help
        /\ add_all_default_values(SelfNext) = SelfNext]_vars

\* a parse has appended the note to a help that ended with 'Default: '
C3_Witness ==
    \E i \in 1..Len(options) :
        /\ options[i].action = "store"
        /\ EndsWith(options[i].help, DefaultNote)
        /\ Len(options[i].help) > Len(DefaultNote) + 9

NonDecreasingKeys(self, list) ==
    \A i, j \in 1..Len(list) :
        i < j => ~StrLt(Key(self.options[list[j]]), Key(self.options[list[i]]))

NonDecreasingTitles(self, list) ==
    \A i, j \in 1..Len(list) :
        i < j => ~StrLt(self.groups[list[j]].title, self.groups[list[i]].title)

\* C4: print_help leaves the option list of the parser and of every group a
\* permutation of what it was, in non-decreasing order of the key, and the
\* group list a permutation of what it was, in non-decreasing order of title;
\* sorting the result again changes nothing.
C4_SortStep ==
    [][print_help =>
        /\ IsPermutation(option_list', option_list)
        /\ NonDecreasingKeys(Self, option_list')
        /\ \A g \in 1..Len(groups) :
            /\ IsPermutation(groups'[g].option_list, groups[g].option_list)
            /\ NonDecreasingKeys(Self, groups'[g].option_list)
            /\ groups'[g].title = groups[g].title
        /\ Len(groups') = Len(groups)
        /\ IsPermutation(option_groups', option_groups)
        /\ NonDecreasingTitles(Self, option_groups')
        /\ options' = options
        /\ print_help_sort(SelfNext) = SelfNext]_vars

\* the parser holds four options out of their order of registration, and its
\* two groups are out of their order of creation
C4_Witness ==
    /\ Len(option_list) >= 4
    /\ \E i, j \in 1..Len(option_list) : i < j /\ option_list[i] > option_list[j]
    /\ option_groups = <<2, 1>>

\* C5: after construction with general true there is a group 'General
\* options' holding exactly the help and the version option, in that order,
\* and the parser's own list holds neither; with general false there is no
\* group, and both are in the parser's list.  The help option is spelled
\* "-?" and "--help", and no option claims "-h".
C5_Constructor ==
    [][\A kwargs \in InitKwargs :
        OptionParser__init__(kwargs) =>
            /\ constructed'
            /\ \E h, v \in 1..Len(options') :
                /\ options'[h].action = "help"
                /\ options'[v].action = "version"
                /\ options'[h]._short_opts = << <<"-", "?">> >>
                /\ options'[h]._long_opts = << <<"-", "-">> \o HELP >>
                /\ IF kwargs.general # {FALSE}
                   THEN /\ Len(option_groups') = 1
                        /\ groups'[option_groups'[1]].title = GeneralTitle
                        /\ groups'[option_groups'[1]].option_list = <<h, v>>
                        /\ ~InSeq(h, option_list') /\ ~InSeq(v, option_list')
                   ELSE /\ option_groups' = <<>>
                        /\ InSeq(h, option_list') /\ InSeq(v, option_list')
            /\ <<"-", "h">> \notin DOMAIN _short_opt']_vars

\* the effect of a move on the containers it does not name
OthersUntouched(destination, src) ==
    /\ option_groups' = option_groups
    /\ Len(groups') = Len(groups)
    /\ \A c \in (0..Len(groups)) \ {destination, src} :
        ListOf(SelfNext, c) = ListOf(Self, c)
    /\ UNCHANGED <<options, _short_opt, _long_opt>>

C7_VersionSet ==
    /\ ~constructed => raised = "None"
    /\ constructed => version # NoStr

\* C8: whenever get_option_by_name sees every option (all are in the parser's
\* own list), search_option returns the option get_option_by_name returns,
\* and its not-found value when get_option_by_name returns None.
C8_SameAsGet ==
    constructed /\ Len(option_list) = Len(options) =>
        \A name \in Names :
            LET found == search_option_call(Self, name)
                got == get_option_by_name(Self, name)
            IN IF got = PyNone THEN found = PyFalse ELSE found = got

\* C8, amended: search_option returns the first option in walk order that
\* matches the name by dest, by long or by short option string, with no
\* priority among the three; False when none matches; it raises nothing and
\* changes nothing.
C8_FirstMatch ==
    [][\A name \in Names :
        search_option(name) =>
            LET w == walk(Self)
                hits == {i \in 1..Len(w) : Matches(options[w[i]], name)}
            IN /\ IF hits = {} THEN returned' = PyFalse
                  ELSE \E i \in hits :
                        /\ returned' = w[i]
                        /\ \A j \in hits : i <= j
               /\ raised' = "None"
               /\ RegistryUnchanged]_vars

\* a search has returned an option that get_option_by_name does not return
\* for any name the option matches
C8_Witness ==
    /\ constructed
    /\ returned > 0
    /\ \E name \in Names :
        /\ search_option_call(Self, name) = returned
        /\ get_option_by_name(Self, name) # returned
        /\ get_option_by_name(Self, name) # PyNone

\* C9: for every source container and every option of its list, a move by a
\* name the option matches finds an option of the source list and moves it.
C9_ResolvesInSource ==
    constructed =>
        \A src \in Containers, name \in Names :
            (\E i \in 1..Len(ListOf(Self, src)) :
                Matches(options[ListOf(Self, src)[i]], name))
            => move_option_call(Self, name, 0, src).raised = "None"

\* C10: a registration that raises OptionConflictError leaves the option
\* strings of every option, both indexes and every option list as they were.
C10_FailureChangesNothing ==
    [][\A c \in Containers, args \in ArgLists :
        /\ Overrides(c)
        /\ add_option(c, args, Plain(NoStr))
        /\ raised' = "OptionConflictError"
        => RegistryUnchanged]_vars

====
